---------------------------- MODULE Spec2Model ----------------------------
(***************************************************************************)
(* Keyword compilers and validators of jsonschema-rs: const, type (current *)
(* and draft 4), maxProperties and multipleOf.                             *)
(*                                                                         *)
(* A compiler is called with a keyword value and a compilation context and *)
(* returns a validator or SchemaError; a validator is then called with     *)
(* instances through is_valid and validate.  The state records the last    *)
(* compilation (its inputs and its result) and the last calls made on the  *)
(* compiled validator.                                                     *)
(*                                                                         *)
(* Numbers.  serde_json keeps a number as PosInt(u64), NegInt(i64) or      *)
(* Float(f64).  f64 is modelled as a binary floating-point format with     *)
(* MantBits bits of significand (f64 has 53) and round-to-nearest-even; a  *)
(* float is the integer number of units of 2^-(MantBits+1) it holds, so    *)
(* 1.0 is Scale units and EPSILON = 2^(1-MantBits) (the gap between 1.0    *)
(* and the next float, as std::f64::EPSILON is for f64) is 4 units.        *)
(***************************************************************************)
EXTENDS Integers, Sequences, FiniteSets, TLC

VARIABLES keyword, schema, context, compiled, instance, verdict, errors, calls

vars == <<keyword, schema, context, compiled, instance, verdict, errors, calls>>

(***************************************************************************)
(* Bounds of the model.                                                    *)
(***************************************************************************)
MantBits == 5          \* significand bits of the modelled float format
MaxInt == 5            \* integer literals are -MaxInt..MaxInt
MaxHalves == 11        \* float literals k/2 for k in -MaxHalves..MaxHalves
MaxArrayLen == 2       \* length of JSON arrays
MaxObjLen == 2         \* number of properties of JSON objects
MaxTypeArrayLen == 2   \* length of the array given to the type keyword
MaxLimit == 2          \* maxProperties limits are 0..MaxLimit

(***************************************************************************)
(* Floating point.                                                         *)
(***************************************************************************)
RECURSIVE Pow2(_)
Pow2(n) == IF n = 0 THEN 1 ELSE 2 * Pow2(n - 1)

Scale == Pow2(MantBits + 1)

One == Scale

Half == Scale \div 2

EPSILON == Scale \div Pow2(MantBits - 1)

\* Not-a-number: the result of x / 0, inf % 1 and x % 0; every comparison
\* with it is false.
NaN == 0 - (Scale * Scale * 4)

Abs(x) == IF x < 0 THEN 0 - x ELSE x

Sign(x) == IF x < 0 THEN 0 - 1 ELSE 1

\* The gap between the floats of the binade of a >= 0.
RECURSIVE Ulp(_)
Ulp(a) == IF a < Pow2(MantBits) THEN 1 ELSE 2 * Ulp(a \div 2)

Representable(x) == Abs(x) % Ulp(Abs(x)) = 0

\* n / d (d > 0, n >= 0, in units) rounded to the nearest float, ties to even.
RoundPos(n, d) ==
    LET q   == n \div d
        u   == Ulp(q)
        lo  == (q \div u) * u
        rem == n - lo * d
    IN  IF 2 * rem < u * d THEN lo
        ELSE IF 2 * rem > u * d THEN lo + u
        ELSE IF (lo \div u) % 2 = 0 THEN lo ELSE lo + u

RoundRat(n, d) == Sign(n) * Sign(d) * RoundPos(Abs(n), Abs(d))

FLt(a, b) == a # NaN /\ b # NaN /\ a < b

FEq(a, b) == a # NaN /\ b # NaN /\ a = b

FSub(a, b) == IF a = NaN \/ b = NaN THEN NaN ELSE RoundRat(a - b, 1)

FAbs(a) == IF a = NaN THEN NaN ELSE Abs(a)

\* a / b: x / 0 is an infinity or NaN; only % 1. is ever applied to it, which
\* gives NaN for both.
FDiv(a, b) == IF a = NaN \/ b = NaN \/ b = 0 THEN NaN ELSE RoundRat(a * Scale, b)

\* a % b of Rust (fmod): exact, with the sign of a.
FRem(a, b) == IF a = NaN \/ b = NaN \/ b = 0 THEN NaN ELSE Sign(a) * (Abs(a) % Abs(b))

\* f64::fract: the part after the decimal point, with the sign of a.
fract(a) == FRem(a, One)

(***************************************************************************)
(* serde_json::Value.  An object keeps its entries as a sequence of        *)
(* <<key, value>> pairs with distinct keys.                                *)
(***************************************************************************)
Null == [kind |-> "Null"]

Bool(b) == [kind |-> "Bool", b |-> b]

String(s) == [kind |-> "String", s |-> s]

PosInt(i) == [kind |-> "Number", n |-> "PosInt", i |-> i]

NegInt(i) == [kind |-> "Number", n |-> "NegInt", i |-> i]

Float(f) == [kind |-> "Number", n |-> "Float", f |-> f]

Array(items) == [kind |-> "Array", items |-> items]

Object(entries) == [kind |-> "Object", entries |-> entries]

\* An integer literal as the parser stores it.
IntLit(i) == IF i >= 0 THEN PosInt(i) ELSE NegInt(i)

is_u64(num) == num.n = "PosInt"

is_i64(num) == num.n = "NegInt" \/ num.n = "PosInt"

\* Number::as_f64: the conversion of an integer rounds to the format.
as_f64(num) == IF num.n = "Float" THEN num.f ELSE RoundRat(num.i * Scale, 1)

\* Value::as_u64
as_u64(value) ==
    IF value.kind = "Number" /\ value.n = "PosInt"
    THEN [some |-> TRUE, v |-> value.i]
    ELSE [some |-> FALSE]

(***************************************************************************)
(* keywords::helpers (equal, equal_arrays, equal_objects): structural deep *)
(* equality; numbers by the epsilon tolerance, arrays element-wise,        *)
(* objects by key set and per-key value, whatever the order of the keys.   *)
(***************************************************************************)
Keys(entries) == {entries[k][1] : k \in 1..Len(entries)}

Get(entries, key) == (CHOOSE k \in 1..Len(entries) : entries[k][1] = key)

RECURSIVE equal(_, _)
RECURSIVE equal_arrays(_, _)
RECURSIVE equal_objects(_, _)
equal(left, right) ==
    IF left.kind # right.kind THEN FALSE
    ELSE CASE left.kind = "String" -> left.s = right.s
           [] left.kind = "Bool"   -> left.b = right.b
           [] left.kind = "Null"   -> TRUE
           [] left.kind = "Number" ->
                FLt(FAbs(FSub(as_f64(left), as_f64(right))), EPSILON)
           [] left.kind = "Array"  -> equal_arrays(left.items, right.items)
           [] left.kind = "Object" -> equal_objects(left.entries, right.entries)

equal_arrays(left, right) ==
    /\ Len(left) = Len(right)
    /\ \A k \in 1..Len(left) : equal(left[k], right[k])

equal_objects(left, right) ==
    /\ Len(left) = Len(right)
    /\ Keys(left) = Keys(right)
    /\ \A k \in 1..Len(left) :
          equal(left[k][2], right[Get(right, left[k][1])][2])

(***************************************************************************)
(* primitive_type: the seven type names and the bitmap of declared types   *)
(* (a set here).                                                           *)
(***************************************************************************)
PrimitiveType ==
    {"Array", "Boolean", "Integer", "Null", "Number", "Object", "String"}

PrimitiveType_try_from(name) ==
    CASE name = "array"   -> [ok |-> TRUE, t |-> "Array"]
      [] name = "boolean" -> [ok |-> TRUE, t |-> "Boolean"]
      [] name = "integer" -> [ok |-> TRUE, t |-> "Integer"]
      [] name = "null"    -> [ok |-> TRUE, t |-> "Null"]
      [] name = "number"  -> [ok |-> TRUE, t |-> "Number"]
      [] name = "object"  -> [ok |-> TRUE, t |-> "Object"]
      [] name = "string"  -> [ok |-> TRUE, t |-> "String"]
      [] OTHER            -> [ok |-> FALSE]

PrimitiveTypesBitMap_new == {}

contains_type(types, t) == t \in types

(***************************************************************************)
(* error: the results of compilation and of validate.                      *)
(***************************************************************************)
SchemaError == [ok |-> FALSE, err |-> "SchemaError"]

Ok(validator) == [ok |-> TRUE, validator |-> validator]

no_error == << >>

error(e) == << e >>

ValidationError(variant, path, inst, expected) ==
    [variant |-> variant, path |-> path, instance |-> inst, expected |-> expected]

(***************************************************************************)
(* const                                                                   *)
(***************************************************************************)
ConstArrayValidator_compile(value, path) ==
    Ok([tag |-> "ConstArray", value |-> value, path |-> path])

ConstArrayValidator_is_valid(self, inst) ==
    IF inst.kind = "Array" THEN equal_arrays(self.value, inst.items) ELSE FALSE

ConstArrayValidator_validate(self, inst) ==
    IF ConstArrayValidator_is_valid(self, inst) THEN no_error
    ELSE error(ValidationError("ConstantArray", self.path, inst, self.value))

ConstBooleanValidator_compile(value, path) ==
    Ok([tag |-> "ConstBoolean", value |-> value, path |-> path])

\* Faulty variant: the stored value is not compared.
ConstBooleanValidator_is_valid_any(self, inst) == inst.kind = "Bool"

ConstBooleanValidator_is_valid(self, inst) ==
    IF inst.kind = "Bool" THEN self.value = inst.b ELSE FALSE

ConstBooleanValidator_validate(self, inst) ==
    IF ConstBooleanValidator_is_valid(self, inst) THEN no_error
    ELSE error(ValidationError("ConstantBoolean", self.path, inst, self.value))

ConstNullValidator_compile(path) ==
    Ok([tag |-> "ConstNull", path |-> path])

ConstNullValidator_is_valid(self, inst) == inst.kind = "Null"

ConstNullValidator_validate(self, inst) ==
    IF ConstNullValidator_is_valid(self, inst) THEN no_error
    ELSE error(ValidationError("ConstantNull", self.path, inst, Null))

ConstNumberValidator_compile(original_value, path) ==
    Ok([tag |-> "ConstNumber", original_value |-> original_value,
        value |-> as_f64(original_value), path |-> path])

\* Faulty variant: <= EPSILON for < EPSILON.
ConstNumberValidator_is_valid_le(self, inst) ==
    IF inst.kind = "Number"
    THEN ~FLt(EPSILON, FAbs(FSub(self.value, as_f64(inst))))
    ELSE FALSE

ConstNumberValidator_is_valid(self, inst) ==
    IF inst.kind = "Number"
    THEN FLt(FAbs(FSub(self.value, as_f64(inst))), EPSILON)
    ELSE FALSE

ConstNumberValidator_validate(self, inst) ==
    IF ConstNumberValidator_is_valid(self, inst) THEN no_error
    ELSE error(ValidationError("ConstantNumber", self.path, inst, self.original_value))

ConstObjectValidator_compile(value, path) ==
    Ok([tag |-> "ConstObject", value |-> value, path |-> path])

ConstObjectValidator_is_valid(self, inst) ==
    IF inst.kind = "Object" THEN equal_objects(self.value, inst.entries) ELSE FALSE

ConstObjectValidator_validate(self, inst) ==
    IF ConstObjectValidator_is_valid(self, inst) THEN no_error
    ELSE error(ValidationError("ConstantObject", self.path, inst, self.value))

ConstStringValidator_compile(value, path) ==
    Ok([tag |-> "ConstString", value |-> value, path |-> path])

ConstStringValidator_is_valid(self, inst) ==
    IF inst.kind = "String" THEN self.value = inst.s ELSE FALSE

ConstStringValidator_validate(self, inst) ==
    IF ConstStringValidator_is_valid(self, inst) THEN no_error
    ELSE error(ValidationError("ConstantString", self.path, inst, self.value))

const_compile(sch, ctx) ==
    CASE sch.kind = "Array"  -> ConstArrayValidator_compile(sch.items, ctx.curr_path)
      [] sch.kind = "Bool"   -> ConstBooleanValidator_compile(sch.b, ctx.curr_path)
      [] sch.kind = "Null"   -> ConstNullValidator_compile(ctx.curr_path)
      [] sch.kind = "Number" -> ConstNumberValidator_compile(sch, ctx.curr_path)
      [] sch.kind = "Object" -> ConstObjectValidator_compile(sch.entries, ctx.curr_path)
      [] sch.kind = "String" -> ConstStringValidator_compile(sch.s, ctx.curr_path)

(***************************************************************************)
(* type (current drafts)                                                   *)
(***************************************************************************)
\* Faulty variant: the draft 4 rule in the current compiler.
is_integer_native(num) == is_u64(num) \/ is_i64(num)

is_integer(num) == is_u64(num) \/ is_i64(num) \/ FEq(fract(as_f64(num)), 0)

\* Faulty variant: an item that is not a string is skipped.
RECURSIVE union_types_skip(_, _, _)
union_types_skip(items, k, types) ==
    IF k > Len(items) THEN [ok |-> TRUE, types |-> types]
    ELSE IF items[k].kind = "String"
         THEN IF PrimitiveType_try_from(items[k].s).ok
              THEN union_types_skip(items, k + 1,
                                    types \cup {PrimitiveType_try_from(items[k].s).t})
              ELSE [ok |-> FALSE]
         ELSE union_types_skip(items, k + 1, types)

\* Faulty variant: an item's type replaces the bitmap.
RECURSIVE union_types_last(_, _, _)
union_types_last(items, k, types) ==
    IF k > Len(items) THEN [ok |-> TRUE, types |-> types]
    ELSE IF items[k].kind = "String"
         THEN IF PrimitiveType_try_from(items[k].s).ok
              THEN union_types_last(items, k + 1,
                                    {PrimitiveType_try_from(items[k].s).t})
              ELSE [ok |-> FALSE]
         ELSE [ok |-> FALSE]

\* The loop of MultipleTypesValidator::compile from item k on: the bitmap, or
\* SchemaError at the first item that is no known type name.
RECURSIVE union_types(_, _, _)
union_types(items, k, types) ==
    IF k > Len(items) THEN [ok |-> TRUE, types |-> types]
    ELSE IF items[k].kind = "String"
         THEN IF PrimitiveType_try_from(items[k].s).ok
              THEN union_types(items, k + 1,
                               types \cup {PrimitiveType_try_from(items[k].s).t})
              ELSE [ok |-> FALSE]
         ELSE [ok |-> FALSE]

MultipleTypesValidator_compile(items, path) ==
    LET r == union_types(items, 1, PrimitiveTypesBitMap_new)
    IN  IF r.ok THEN Ok([tag |-> "MultipleTypes", types |-> r.types, path |-> path])
        ELSE SchemaError

MultipleTypesValidator_is_valid(self, inst) ==
    CASE inst.kind = "Array"  -> contains_type(self.types, "Array")
      [] inst.kind = "Bool"   -> contains_type(self.types, "Boolean")
      [] inst.kind = "Null"   -> contains_type(self.types, "Null")
      [] inst.kind = "Number" ->
            \/ contains_type(self.types, "Number")
            \/ (contains_type(self.types, "Integer") /\ is_integer(inst))
      [] inst.kind = "Object" -> contains_type(self.types, "Object")
      [] inst.kind = "String" -> contains_type(self.types, "String")

\* Faulty variant: the error is given the root path, not the captured one.
MultipleTypesValidator_validate_root(self, inst) ==
    IF MultipleTypesValidator_is_valid(self, inst) THEN no_error
    ELSE error(ValidationError("MultipleTypeError", << >>, inst, self.types))

MultipleTypesValidator_validate(self, inst) ==
    IF MultipleTypesValidator_is_valid(self, inst) THEN no_error
    ELSE error(ValidationError("MultipleTypeError", self.path, inst, self.types))

NullTypeValidator_is_valid(self, inst) == inst.kind = "Null"

BooleanTypeValidator_is_valid(self, inst) == inst.kind = "Bool"

StringTypeValidator_is_valid(self, inst) == inst.kind = "String"

ArrayTypeValidator_is_valid(self, inst) == inst.kind = "Array"

ObjectTypeValidator_is_valid(self, inst) == inst.kind = "Object"

NumberTypeValidator_is_valid(self, inst) == inst.kind = "Number"

\* Faulty variant: only natively stored integers.
IntegerTypeValidator_is_valid_native(self, inst) ==
    IF inst.kind = "Number" THEN is_u64(inst) \/ is_i64(inst) ELSE FALSE

IntegerTypeValidator_is_valid(self, inst) ==
    IF inst.kind = "Number" THEN is_integer(inst) ELSE FALSE

\* The compile function of each single-type validator: the struct holds the
\* path alone.
SingleTypeValidator_compile(tag, path) == Ok([tag |-> tag, path |-> path])

compile_single_type(item, path) ==
    LET t == PrimitiveType_try_from(item)
    IN  IF ~t.ok THEN SchemaError
        ELSE CASE t.t = "Array"   -> SingleTypeValidator_compile("ArrayType", path)
               [] t.t = "Boolean" -> SingleTypeValidator_compile("BooleanType", path)
               [] t.t = "Integer" -> SingleTypeValidator_compile("IntegerType", path)
               [] t.t = "Null"    -> SingleTypeValidator_compile("NullType", path)
               [] t.t = "Number"  -> SingleTypeValidator_compile("NumberType", path)
               [] t.t = "Object"  -> SingleTypeValidator_compile("ObjectType", path)
               [] t.t = "String"  -> SingleTypeValidator_compile("StringType", path)

type_compile(sch, ctx) ==
    LET path == ctx.curr_path
    IN  CASE sch.kind = "String" -> compile_single_type(sch.s, path)
          [] sch.kind = "Array" ->
                IF Len(sch.items) = 1
                THEN IF sch.items[1].kind = "String"
                     THEN compile_single_type(sch.items[1].s, path)
                     ELSE SchemaError
                ELSE MultipleTypesValidator_compile(sch.items, path)
          [] OTHER -> SchemaError

(***************************************************************************)
(* type (draft 4)                                                          *)
(***************************************************************************)
\* Faulty variant: the current rule in the draft 4 compiler.
draft4_is_integer_fract(num) ==
    is_u64(num) \/ is_i64(num) \/ FEq(fract(as_f64(num)), 0)

draft4_is_integer(num) == is_u64(num) \/ is_i64(num)

draft4_MultipleTypesValidator_compile(items, path) ==
    LET r == union_types(items, 1, PrimitiveTypesBitMap_new)
    IN  IF r.ok
        THEN Ok([tag |-> "MultipleTypesDraft4", types |-> r.types, path |-> path])
        ELSE SchemaError

draft4_MultipleTypesValidator_is_valid(self, inst) ==
    CASE inst.kind = "Array"  -> contains_type(self.types, "Array")
      [] inst.kind = "Bool"   -> contains_type(self.types, "Boolean")
      [] inst.kind = "Null"   -> contains_type(self.types, "Null")
      [] inst.kind = "Number" ->
            \/ contains_type(self.types, "Number")
            \/ (contains_type(self.types, "Integer") /\ draft4_is_integer(inst))
      [] inst.kind = "Object" -> contains_type(self.types, "Object")
      [] inst.kind = "String" -> contains_type(self.types, "String")

draft4_MultipleTypesValidator_validate(self, inst) ==
    IF draft4_MultipleTypesValidator_is_valid(self, inst) THEN no_error
    ELSE error(ValidationError("MultipleTypeError", self.path, inst, self.types))

draft4_IntegerTypeValidator_is_valid(self, inst) ==
    IF inst.kind = "Number" THEN draft4_is_integer(inst) ELSE FALSE

draft4_compile_single_type(item, path) ==
    LET t == PrimitiveType_try_from(item)
    IN  IF ~t.ok THEN SchemaError
        ELSE CASE t.t = "Array"   -> SingleTypeValidator_compile("ArrayType", path)
               [] t.t = "Boolean" -> SingleTypeValidator_compile("BooleanType", path)
               [] t.t = "Integer" -> SingleTypeValidator_compile("IntegerTypeDraft4", path)
               [] t.t = "Null"    -> SingleTypeValidator_compile("NullType", path)
               [] t.t = "Number"  -> SingleTypeValidator_compile("NumberType", path)
               [] t.t = "Object"  -> SingleTypeValidator_compile("ObjectType", path)
               [] t.t = "String"  -> SingleTypeValidator_compile("StringType", path)

draft4_type_compile(sch, ctx) ==
    LET path == ctx.curr_path
    IN  CASE sch.kind = "String" -> draft4_compile_single_type(sch.s, path)
          [] sch.kind = "Array" ->
                IF Len(sch.items) = 1
                THEN IF sch.items[1].kind = "String"
                     THEN draft4_compile_single_type(sch.items[1].s, path)
                     ELSE SchemaError
                ELSE draft4_MultipleTypesValidator_compile(sch.items, path)
          [] OTHER -> SchemaError

\* is_valid and the PrimitiveType named in the error of the single-type
\* validators.
SingleType_is_valid(self, inst) ==
    CASE self.tag = "ArrayType"         -> ArrayTypeValidator_is_valid(self, inst)
      [] self.tag = "BooleanType"       -> BooleanTypeValidator_is_valid(self, inst)
      [] self.tag = "IntegerType"       -> IntegerTypeValidator_is_valid(self, inst)
      [] self.tag = "IntegerTypeDraft4" -> draft4_IntegerTypeValidator_is_valid(self, inst)
      [] self.tag = "NullType"          -> NullTypeValidator_is_valid(self, inst)
      [] self.tag = "NumberType"        -> NumberTypeValidator_is_valid(self, inst)
      [] self.tag = "ObjectType"        -> ObjectTypeValidator_is_valid(self, inst)
      [] self.tag = "StringType"        -> StringTypeValidator_is_valid(self, inst)

SingleType_of(tag) ==
    CASE tag = "ArrayType"         -> "Array"
      [] tag = "BooleanType"       -> "Boolean"
      [] tag = "IntegerType"       -> "Integer"
      [] tag = "IntegerTypeDraft4" -> "Integer"
      [] tag = "NullType"          -> "Null"
      [] tag = "NumberType"        -> "Number"
      [] tag = "ObjectType"        -> "Object"
      [] tag = "StringType"        -> "String"

SingleType_validate(self, inst) ==
    IF SingleType_is_valid(self, inst) THEN no_error
    ELSE error(ValidationError("SingleTypeError", self.path, inst, SingleType_of(self.tag)))

(***************************************************************************)
(* maxProperties                                                           *)
(***************************************************************************)
MaxPropertiesValidator_compile(sch, path) ==
    IF as_u64(sch).some
    THEN Ok([tag |-> "MaxProperties", limit |-> as_u64(sch).v, path |-> path])
    ELSE SchemaError

\* Faulty variant: >= for >.
MaxPropertiesValidator_is_valid_ge(self, inst) ==
    IF inst.kind = "Object" /\ Len(inst.entries) >= self.limit THEN FALSE ELSE TRUE

MaxPropertiesValidator_is_valid(self, inst) ==
    IF inst.kind = "Object" /\ Len(inst.entries) > self.limit THEN FALSE ELSE TRUE

\* Faulty variant: >= for >, in validate alone.
MaxPropertiesValidator_validate_ge(self, inst) ==
    IF inst.kind = "Object" /\ Len(inst.entries) >= self.limit
    THEN error(ValidationError("MaxProperties", self.path, inst, self.limit))
    ELSE no_error

MaxPropertiesValidator_validate(self, inst) ==
    IF inst.kind = "Object" /\ Len(inst.entries) > self.limit
    THEN error(ValidationError("MaxProperties", self.path, inst, self.limit))
    ELSE no_error

max_properties_compile(sch, ctx) == MaxPropertiesValidator_compile(sch, ctx.curr_path)

(***************************************************************************)
(* multipleOf                                                              *)
(***************************************************************************)
\* remainder < EPSILON && remainder < (1. - EPSILON)
remainder_is_small(remainder) ==
    FLt(remainder, EPSILON) /\ FLt(remainder, FSub(One, EPSILON))

MultipleOfFloatValidator_compile(multiple_of, path) ==
    Ok([tag |-> "MultipleOfFloat", multiple_of |-> multiple_of, path |-> path])

MultipleOfFloatValidator_is_valid(self, inst) ==
    IF inst.kind = "Number"
    THEN LET item      == as_f64(inst)
             remainder == FRem(FDiv(item, self.multiple_of), One)
         IN  IF ~remainder_is_small(remainder) THEN FALSE ELSE TRUE
    ELSE TRUE

MultipleOfFloatValidator_validate(self, inst) ==
    IF inst.kind = "Number"
    THEN LET item      == as_f64(inst)
             remainder == FRem(FDiv(item, self.multiple_of), One)
         IN  IF ~remainder_is_small(remainder)
             THEN error(ValidationError("MultipleOf", self.path, inst, self.multiple_of))
             ELSE no_error
    ELSE no_error

MultipleOfIntegerValidator_compile(multiple_of, path) ==
    Ok([tag |-> "MultipleOfInteger", multiple_of |-> multiple_of, path |-> path])

\* Faulty variant: the quotient test for integral items too.
is_multiple_quotient(item, multiple_of) ==
    remainder_is_small(FRem(FDiv(item, multiple_of), One))

is_multiple(item, multiple_of) ==
    IF FEq(fract(item), 0)
    THEN FEq(FRem(item, multiple_of), 0)
    ELSE remainder_is_small(FRem(FDiv(item, multiple_of), One))

MultipleOfIntegerValidator_is_valid(self, inst) ==
    IF inst.kind = "Number"
    THEN IF ~is_multiple(as_f64(inst), self.multiple_of) THEN FALSE ELSE TRUE
    ELSE TRUE

MultipleOfIntegerValidator_validate(self, inst) ==
    IF inst.kind = "Number"
    THEN IF ~is_multiple(as_f64(inst), self.multiple_of)
         THEN error(ValidationError("MultipleOf", self.path, inst, self.multiple_of))
         ELSE no_error
    ELSE no_error

\* Faulty variant: a divisor that is not positive is refused.
multiple_of_compile_positive(sch, ctx) ==
    LET path == ctx.curr_path
    IN  IF sch.kind = "Number" /\ as_f64(sch) > 0
        THEN LET multiple_of == as_f64(sch)
             IN  IF FEq(fract(multiple_of), 0)
                 THEN MultipleOfIntegerValidator_compile(multiple_of, path)
                 ELSE MultipleOfFloatValidator_compile(multiple_of, path)
        ELSE SchemaError

multiple_of_compile(sch, ctx) ==
    LET path == ctx.curr_path
    IN  IF sch.kind = "Number"
        THEN LET multiple_of == as_f64(sch)
             IN  IF FEq(fract(multiple_of), 0)
                 THEN MultipleOfIntegerValidator_compile(multiple_of, path)
                 ELSE MultipleOfFloatValidator_compile(multiple_of, path)
        ELSE SchemaError

(***************************************************************************)
(* validator::Validate: the dispatch on the compiled variant.              *)
(***************************************************************************)
SingleTypeTags ==
    {"ArrayType", "BooleanType", "IntegerType", "IntegerTypeDraft4", "NullType",
     "NumberType", "ObjectType", "StringType"}

is_valid(self, inst) ==
    CASE self.tag = "ConstArray"    -> ConstArrayValidator_is_valid(self, inst)
      [] self.tag = "ConstBoolean"  -> ConstBooleanValidator_is_valid(self, inst)
      [] self.tag = "ConstNull"     -> ConstNullValidator_is_valid(self, inst)
      [] self.tag = "ConstNumber"   -> ConstNumberValidator_is_valid(self, inst)
      [] self.tag = "ConstObject"   -> ConstObjectValidator_is_valid(self, inst)
      [] self.tag = "ConstString"   -> ConstStringValidator_is_valid(self, inst)
      [] self.tag = "MultipleTypes" -> MultipleTypesValidator_is_valid(self, inst)
      [] self.tag = "MultipleTypesDraft4" ->
            draft4_MultipleTypesValidator_is_valid(self, inst)
      [] self.tag \in SingleTypeTags -> SingleType_is_valid(self, inst)
      [] self.tag = "MaxProperties" -> MaxPropertiesValidator_is_valid(self, inst)
      [] self.tag = "MultipleOfFloat" -> MultipleOfFloatValidator_is_valid(self, inst)
      [] self.tag = "MultipleOfInteger" ->
            MultipleOfIntegerValidator_is_valid(self, inst)

validate(self, inst) ==
    CASE self.tag = "ConstArray"    -> ConstArrayValidator_validate(self, inst)
      [] self.tag = "ConstBoolean"  -> ConstBooleanValidator_validate(self, inst)
      [] self.tag = "ConstNull"     -> ConstNullValidator_validate(self, inst)
      [] self.tag = "ConstNumber"   -> ConstNumberValidator_validate(self, inst)
      [] self.tag = "ConstObject"   -> ConstObjectValidator_validate(self, inst)
      [] self.tag = "ConstString"   -> ConstStringValidator_validate(self, inst)
      [] self.tag = "MultipleTypes" -> MultipleTypesValidator_validate(self, inst)
      [] self.tag = "MultipleTypesDraft4" ->
            draft4_MultipleTypesValidator_validate(self, inst)
      [] self.tag \in SingleTypeTags -> SingleType_validate(self, inst)
      [] self.tag = "MaxProperties" -> MaxPropertiesValidator_validate(self, inst)
      [] self.tag = "MultipleOfFloat" -> MultipleOfFloatValidator_validate(self, inst)
      [] self.tag = "MultipleOfInteger" ->
            MultipleOfIntegerValidator_validate(self, inst)

\* ToString::to_string: the format string and the field it is filled with.
to_string(self) ==
    CASE self.tag = "ConstArray"    -> [text |-> "const: [{}]", args |-> self.value]
      [] self.tag = "ConstBoolean"  -> [text |-> "const: {}", args |-> self.value]
      [] self.tag = "ConstNull"     -> [text |-> "const: {}", args |-> Null]
      [] self.tag = "ConstNumber"   -> [text |-> "const: {}", args |-> self.original_value]
      [] self.tag = "ConstObject"   -> [text |-> "const: {{{}}}", args |-> self.value]
      [] self.tag = "ConstString"   -> [text |-> "const: {}", args |-> self.value]
      [] self.tag = "MultipleTypes" -> [text |-> "type: [{}]", args |-> self.types]
      [] self.tag = "MultipleTypesDraft4" -> [text |-> "type: [{}]", args |-> self.types]
      [] self.tag = "ArrayType"     -> [text |-> "type: array", args |-> << >>]
      [] self.tag = "BooleanType"   -> [text |-> "type: boolean", args |-> << >>]
      [] self.tag = "IntegerType"   -> [text |-> "type: integer", args |-> << >>]
      [] self.tag = "IntegerTypeDraft4" -> [text |-> "type: integer", args |-> << >>]
      [] self.tag = "NullType"      -> [text |-> "type: null", args |-> << >>]
      [] self.tag = "NumberType"    -> [text |-> "type: number", args |-> << >>]
      [] self.tag = "ObjectType"    -> [text |-> "type: object", args |-> << >>]
      [] self.tag = "StringType"    -> [text |-> "type: string", args |-> << >>]
      [] self.tag = "MaxProperties" -> [text |-> "maxProperties: {}", args |-> self.limit]
      [] self.tag = "MultipleOfFloat" -> [text |-> "multipleOf: {}", args |-> self.multiple_of]
      [] self.tag = "MultipleOfInteger" ->
            [text |-> "multipleOf: {}", args |-> self.multiple_of]

\* A call of one of the three &self methods.
Methods == {"is_valid", "validate", "to_string"}

CallResult(self, method, inst) ==
    CASE method = "is_valid"  -> is_valid(self, inst)
      [] method = "validate"  -> validate(self, inst)
      [] method = "to_string" -> to_string(self)

(***************************************************************************)
(* The values the compilers and the validators are called with.            *)
(***************************************************************************)
SeqsUpTo(S, n) == UNION {[1..k -> S] : k \in 0..n}

\* 1.1 as the parser stores it: the float nearest to 11/10.
OnePointOne == RoundRat(11 * Scale, 10)

\* 1.0000000000000002 is the float that follows 1.0: 1.0 + EPSILON.
NextAfterOne == One + EPSILON

FloatValues ==
    {f \in {(k * Scale) \div 2 : k \in (0 - MaxHalves)..MaxHalves}
           \cup {One - EPSILON, One - (EPSILON \div 2), NextAfterOne, One + 2 * EPSILON}
           \cup {Half - 1, OnePointOne} : Representable(f)}

Numbers ==
    {IntLit(i) : i \in (0 - MaxInt)..MaxInt} \cup {Float(f) : f \in FloatValues}

Scalars == {Null, Bool(TRUE), Bool(FALSE), String("a"), String("b")}

ArrayElems == {Null, PosInt(1), Float(One)}

Arrays == {Array(items) : items \in SeqsUpTo(ArrayElems, MaxArrayLen)}

ObjectKeys == {"a", "b"}

ObjectElems == {PosInt(1), PosInt(2)}

\* {"a":1,"b":2,"c":3}
ThreeProperties == Object(<< <<"a", PosInt(1)>>, <<"b", PosInt(2)>>, <<"c", PosInt(3)>> >>)

Objects ==
    {Object(entries) :
        entries \in {e \in SeqsUpTo(ObjectKeys \X ObjectElems, MaxObjLen) :
                        Cardinality(Keys(e)) = Len(e)}}
        \cup {ThreeProperties}

ConstNumbers ==
    {PosInt(0), PosInt(1), PosInt(2), NegInt(0 - 1), Float(0), Float(One),
     Float(One - EPSILON), Float(One - (EPSILON \div 2)), Float(NextAfterOne),
     Float(One + 2 * EPSILON), Float(OnePointOne), Float(2 * One)}

ConstValues == Scalars \cup ConstNumbers \cup Arrays \cup Objects

TypeNames == {"array", "boolean", "integer", "null", "number", "object", "string"}

\* The entries of the arrays given to the type keyword: four of the names, an
\* unknown name and a non-string.
TypeItems == {String(name) : name \in {"integer", "null", "number", "string", "foo"}}
                \cup {PosInt(5)}

TypeSchemas ==
    {String(name) : name \in TypeNames \cup {"foo"}}
        \cup {Array(<<String(name)>>) : name \in TypeNames}
        \cup {Array(items) : items \in SeqsUpTo(TypeItems, MaxTypeArrayLen)}
        \cup {Null, PosInt(5), Object(<< >>)}

TypeInstances ==
    Numbers \cup {Null, Bool(TRUE), String("a"), Array(<< >>), Array(<<Null>>),
                  Object(<< >>)}

MaxPropertiesSchemas ==
    {PosInt(l) : l \in 0..MaxLimit}
        \cup {NegInt(0 - 1), Float(3 * Half), Float(2 * One), String("x"), Null}

MaxPropertiesInstances ==
    Objects \cup {Null, Bool(TRUE), String("a string"), PosInt(3), Array(<<Null, Null, Null>>)}

MultipleOfSchemas ==
    {IntLit(i) : i \in {0 - 2, 0, 1, 2, 3}}
        \cup {Float(f) : f \in {0, One, 2 * One, Half, 3 * Half, 5 * Half, 0 - Half,
                                Half \div 2}}
        \cup {String("x"), Null}

MultipleOfInstances ==
    Numbers \cup {Null, Bool(TRUE), String("a"), Array(<<PosInt(1)>>), Object(<< >>)}

Instances(kw) ==
    CASE kw = "const"         -> ConstValues
      [] kw = "type"          -> TypeInstances
      [] kw = "type_draft_4"  -> TypeInstances
      [] kw = "maxProperties" -> MaxPropertiesInstances
      [] kw = "multipleOf"    -> MultipleOfInstances
      [] OTHER                -> {}

\* The threads that hold a shared reference to the compiled validator, and
\* the instances they pass.
Threads == {"t1", "t2"}

Idle == [pc |-> "idle"]

SharedInstances(kw) ==
    CASE kw = "const"         -> {Null, PosInt(1), Float(NextAfterOne)}
      [] kw = "type"          -> {Null, Float(One), String("a")}
      [] kw = "type_draft_4"  -> {Null, Float(One), String("a")}
      [] kw = "maxProperties" -> {Object(<< >>), ThreeProperties, Null}
      [] kw = "multipleOf"    -> {PosInt(3), Float(Half - 1), NegInt(0 - 4)}
      [] OTHER                -> {}

Paths == {<< >>, <<"properties", "a">>}

(***************************************************************************)
(* The state machine.  A keyword is compiled once, for a schema location;  *)
(* the validator is then called any number of times, and dropped with the  *)
(* tree that owns it.                                                      *)
(***************************************************************************)
NotCompiled == [ok |-> FALSE, err |-> "NotCompiled"]

NoInstance == [kind |-> "Unset"]

NotCalled == [called |-> FALSE]

Init ==
    /\ keyword = "none"
    /\ schema = Null
    /\ context = [curr_path |-> << >>]
    /\ compiled = NotCompiled
    /\ instance = NoInstance
    /\ verdict = NotCalled
    /\ errors = NotCalled
    /\ calls = [t \in Threads |-> Idle]

CompileConst ==
    /\ keyword = "none"
    /\ \E sch \in ConstValues, path \in Paths :
        /\ keyword' = "const"
        /\ schema' = sch
        /\ context' = [curr_path |-> path]
        /\ compiled' = const_compile(sch, [curr_path |-> path])
    /\ UNCHANGED <<instance, verdict, errors, calls>>

CompileType ==
    /\ keyword = "none"
    /\ \E sch \in TypeSchemas, path \in Paths :
        /\ keyword' = "type"
        /\ schema' = sch
        /\ context' = [curr_path |-> path]
        /\ compiled' = type_compile(sch, [curr_path |-> path])
    /\ UNCHANGED <<instance, verdict, errors, calls>>

CompileTypeDraft4 ==
    /\ keyword = "none"
    /\ \E sch \in TypeSchemas, path \in Paths :
        /\ keyword' = "type_draft_4"
        /\ schema' = sch
        /\ context' = [curr_path |-> path]
        /\ compiled' = draft4_type_compile(sch, [curr_path |-> path])
    /\ UNCHANGED <<instance, verdict, errors, calls>>

CompileMaxProperties ==
    /\ keyword = "none"
    /\ \E sch \in MaxPropertiesSchemas, path \in Paths :
        /\ keyword' = "maxProperties"
        /\ schema' = sch
        /\ context' = [curr_path |-> path]
        /\ compiled' = max_properties_compile(sch, [curr_path |-> path])
    /\ UNCHANGED <<instance, verdict, errors, calls>>

CompileMultipleOf ==
    /\ keyword = "none"
    /\ \E sch \in MultipleOfSchemas, path \in Paths :
        /\ keyword' = "multipleOf"
        /\ schema' = sch
        /\ context' = [curr_path |-> path]
        /\ compiled' = multiple_of_compile(sch, [curr_path |-> path])
    /\ UNCHANGED <<instance, verdict, errors, calls>>

IsValid ==
    /\ compiled.ok
    /\ \E inst \in Instances(keyword) :
        /\ instance' = inst
        /\ verdict' = [called |-> TRUE, valid |-> is_valid(compiled.validator, inst)]
        /\ errors' = IF instance = inst THEN errors ELSE NotCalled
    /\ UNCHANGED <<keyword, schema, context, compiled, calls>>

Validate ==
    /\ compiled.ok
    /\ \E inst \in Instances(keyword) :
        /\ instance' = inst
        /\ errors' = [called |-> TRUE, seq |-> validate(compiled.validator, inst)]
        /\ verdict' = IF instance = inst THEN verdict ELSE NotCalled
    /\ UNCHANGED <<keyword, schema, context, compiled, calls>>

Drop ==
    /\ keyword # "none"
    /\ keyword' = "none"
    /\ schema' = Null
    /\ context' = [curr_path |-> << >>]
    /\ compiled' = NotCompiled
    /\ instance' = NoInstance
    /\ verdict' = NotCalled
    /\ errors' = NotCalled
    /\ UNCHANGED calls

(***************************************************************************)
(* Several threads share the compiled validator.  A call is entered with   *)
(* its argument, reads the validator when it runs, and hands its result to *)
(* the caller; the steps of different threads interleave.  The validator   *)
(* is dropped only when no call borrows it.                                *)
(***************************************************************************)
ThreadCall(t) ==
    /\ compiled.ok
    /\ calls[t] = Idle
    /\ \E method \in Methods :
        \E inst \in IF method = "to_string" THEN {NoInstance}
                    ELSE SharedInstances(keyword) :
            calls' = [calls EXCEPT ![t] =
                        [pc |-> "running", method |-> method, inst |-> inst]]
    /\ UNCHANGED <<keyword, schema, context, compiled, instance, verdict, errors>>

\* Faulty variant: the call leaves a trace in the validator.
ThreadReturn_caching(t) ==
    /\ calls[t].pc = "running"
    /\ calls' = [calls EXCEPT ![t] =
                    [pc |-> "returned", method |-> calls[t].method,
                     inst |-> calls[t].inst,
                     result |-> CallResult(compiled.validator, calls[t].method,
                                           calls[t].inst)]]
    /\ compiled' = [compiled EXCEPT !.validator.path = <<"cached">>]
    /\ UNCHANGED <<keyword, schema, context, instance, verdict, errors>>

ThreadReturn(t) ==
    /\ calls[t].pc = "running"
    /\ calls' = [calls EXCEPT ![t] =
                    [pc |-> "returned", method |-> calls[t].method,
                     inst |-> calls[t].inst,
                     result |-> CallResult(compiled.validator, calls[t].method,
                                           calls[t].inst)]]
    /\ UNCHANGED <<keyword, schema, context, compiled, instance, verdict, errors>>

ThreadForget(t) ==
    /\ calls[t].pc = "returned"
    /\ calls' = [calls EXCEPT ![t] = Idle]
    /\ UNCHANGED <<keyword, schema, context, compiled, instance, verdict, errors>>

Release ==
    /\ \A t \in Threads : calls[t] = Idle
    /\ Drop

Next ==
    \/ CompileConst
    \/ CompileType
    \/ CompileTypeDraft4
    \/ CompileMaxProperties
    \/ CompileMultipleOf
    \/ IsValid
    \/ Validate
    \/ Drop

Spec == Init /\ [][Next]_vars

NextThreads ==
    \/ CompileConst
    \/ CompileType
    \/ CompileTypeDraft4
    \/ CompileMaxProperties
    \/ CompileMultipleOf
    \/ \E t \in Threads : ThreadCall(t)
    \/ \E t \in Threads : ThreadReturn(t)
    \/ \E t \in Threads : ThreadForget(t)
    \/ Release

SpecThreads == Init /\ [][NextThreads]_vars

(***************************************************************************)
(* Properties.                                                             *)
(***************************************************************************)
BothCalled == compiled.ok /\ verdict.called /\ errors.called

\* C1: for every compiled validator and every instance, validate yields no
\* error exactly when is_valid is true, and exactly one error (never more)
\* when is_valid is false.
C1_ValidateAgreesWithIsValid ==
    BothCalled =>
        /\ Len(errors.seq) <= 1
        /\ (Len(errors.seq) = 0) <=> verdict.valid
        /\ (Len(errors.seq) = 1) <=> ~verdict.valid

C1_Witness ==
    /\ BothCalled
    /\ compiled.validator.tag \in {"MaxProperties", "MultipleOfFloat", "MultipleOfInteger"}
    /\ ~verdict.valid
    /\ Len(errors.seq) = 1

\* Deep equality of two JSON values, as the const keyword defines it: values
\* of different shapes differ; booleans, null and strings are compared
\* exactly, numbers to within EPSILON, arrays element by element, objects as
\* maps from keys to values.
NumberDistance(a, b) == Abs(as_f64(a) - as_f64(b))

AsMap(entries) == [key \in Keys(entries) |-> entries[Get(entries, key)][2]]

RECURSIVE deep_equal(_, _)
deep_equal(L, I) ==
    /\ L.kind = I.kind
    /\ CASE L.kind = "Null"   -> TRUE
         [] L.kind = "Bool"   -> L.b = I.b
         [] L.kind = "String" -> L.s = I.s
         [] L.kind = "Number" -> NumberDistance(L, I) < EPSILON
         [] L.kind = "Array"  ->
              /\ Len(L.items) = Len(I.items)
              /\ \A k \in 1..Len(L.items) : deep_equal(L.items[k], I.items[k])
         [] L.kind = "Object" ->
              /\ DOMAIN AsMap(L.entries) = DOMAIN AsMap(I.entries)
              /\ \A key \in DOMAIN AsMap(L.entries) :
                    deep_equal(AsMap(L.entries)[key], AsMap(I.entries)[key])

\* C2: the validator compiled by const from a literal L accepts an instance I
\* exactly when deep_equal(L, I).
C2_ConstIdentity ==
    (keyword = "const" /\ compiled.ok /\ verdict.called) =>
        (verdict.valid <=> deep_equal(schema, instance))

\* An object literal accepts an instance that lists the same properties in
\* another order.
C2_Witness ==
    /\ keyword = "const"
    /\ compiled.ok
    /\ verdict.called
    /\ verdict.valid
    /\ schema.kind = "Object"
    /\ Len(schema.entries) = 2
    /\ instance.entries[1][1] # schema.entries[1][1]

ConstNumberCalled ==
    keyword = "const" /\ compiled.ok /\ schema.kind = "Number" /\ verdict.called

ConstNumberRule ==
    verdict.valid <=>
        (instance.kind = "Number" /\ NumberDistance(schema, instance) < EPSILON)

\* C3 as stated: ConstNumberValidator accepts an instance iff it is a number
\* that differs from the literal by strictly less than EPSILON; for the
\* literal 1.0 the instance 1.0000000000000002 is valid and 1.1 is invalid.
C3_Original ==
    ConstNumberCalled =>
        /\ ConstNumberRule
        /\ (schema = Float(One) /\ instance = Float(NextAfterOne)) => verdict.valid
        /\ (schema = Float(One) /\ instance = Float(OnePointOne)) => ~verdict.valid

\* C3 as amended: ConstNumberValidator accepts an instance iff it is a number
\* that differs from the literal by strictly less than EPSILON; for the
\* literal 1.0 the instance 1.0000000000000002, which is 1.0 + EPSILON, is
\* invalid (the difference is EPSILON, not less), and 1.1 is invalid.
C3_ConstNumberStrictlyWithinEpsilon ==
    ConstNumberCalled =>
        /\ ConstNumberRule
        /\ (schema = Float(One) /\ instance = Float(NextAfterOne)) => ~verdict.valid
        /\ (schema = Float(One) /\ instance = Float(OnePointOne)) => ~verdict.valid

C3_Witness ==
    /\ ConstNumberCalled
    /\ schema = Float(One)
    /\ instance = Float(NextAfterOne)
    /\ ~verdict.valid

\* The type names a well-formed type keyword declares.
DeclaredTypes(sch) ==
    IF sch.kind = "String" THEN {sch.s}
    ELSE {sch.items[k].s : k \in 1..Len(sch.items)}

KindName(kind) ==
    CASE kind = "Array"  -> "array"
      [] kind = "Bool"   -> "boolean"
      [] kind = "Null"   -> "null"
      [] kind = "Object" -> "object"
      [] kind = "String" -> "string"

HasNoFraction(num) == num.n # "Float" \/ num.f % Scale = 0

\* Whether an instance is of one of the declared types, a number being of type
\* number and, when its value has no fractional part, of type integer.
Declares(declared, inst) ==
    IF inst.kind = "Number"
    THEN "number" \in declared \/ ("integer" \in declared /\ HasNoFraction(inst))
    ELSE KindName(inst.kind) \in declared

\* C4: the validator the current type compiler builds accepts an instance iff
\* its kind is among the declared types; a number is accepted iff number is
\* declared, or integer is declared and the value has no fractional part.
C4_TypeAcceptsDeclaredKinds ==
    (keyword = "type" /\ compiled.ok /\ verdict.called) =>
        (verdict.valid <=> Declares(DeclaredTypes(schema), instance))

\* "integer" alone accepts 5.0.
C4_Witness ==
    /\ keyword = "type"
    /\ compiled.ok
    /\ schema = String("integer")
    /\ instance = Float(5 * One)
    /\ verdict.called
    /\ verdict.valid

TypeCalled == keyword \in {"type", "type_draft_4"} /\ compiled.ok /\ verdict.called

current_verdict(sch, inst) == is_valid(type_compile(sch, context).validator, inst)

legacy_verdict(sch, inst) == is_valid(draft4_type_compile(sch, context).validator, inst)

ZeroFractionFloat(inst) ==
    inst.kind = "Number" /\ inst.n = "Float" /\ inst.f % Scale = 0

\* C5: for the same valid declaration the draft 4 and the current compiler
\* give the same verdict on every instance, except on a float-stored number
\* with a zero fractional part when integer is declared and number is not:
\* the current compiler accepts it and the draft 4 compiler rejects it.
C5_LegacyDiffersOnZeroFractionFloats ==
    TypeCalled =>
        /\ type_compile(schema, context).ok
        /\ draft4_type_compile(schema, context).ok
        /\ verdict.valid = IF keyword = "type" THEN current_verdict(schema, instance)
                           ELSE legacy_verdict(schema, instance)
        /\ IF /\ ZeroFractionFloat(instance)
              /\ "integer" \in DeclaredTypes(schema)
              /\ "number" \notin DeclaredTypes(schema)
           THEN current_verdict(schema, instance) /\ ~legacy_verdict(schema, instance)
           ELSE current_verdict(schema, instance) = legacy_verdict(schema, instance)

\* The draft 4 compiler rejects 3.0 as an integer.
C5_Witness ==
    /\ keyword = "type_draft_4"
    /\ compiled.ok
    /\ schema = String("integer")
    /\ instance = Float(3 * One)
    /\ verdict.called
    /\ ~verdict.valid

IsTypeName(sch) == sch.kind = "String" /\ sch.s \in TypeNames

IsOneTypeName(sch) ==
    sch.kind = "Array" /\ Len(sch.items) = 1 /\ IsTypeName(sch.items[1])

NameOf(sch) == IF sch.kind = "String" THEN sch.s ELSE sch.items[1].s

\* C6: for every type name T the validator compiled from [T] gives the same
\* verdict as the one compiled from T, and both the verdict of a
\* MultipleTypesValidator whose bitmap holds T alone, in both compilers.
C6_SingleTypeCollapse ==
    (TypeCalled /\ (IsTypeName(schema) \/ IsOneTypeName(schema))) =>
        LET T        == String(NameOf(schema))
            items    == <<T>>
            path     == context.curr_path
        IN  IF keyword = "type"
            THEN /\ verdict.valid = current_verdict(T, instance)
                 /\ verdict.valid = current_verdict(Array(items), instance)
                 /\ verdict.valid =
                      is_valid(MultipleTypesValidator_compile(items, path).validator,
                               instance)
            ELSE /\ verdict.valid = legacy_verdict(T, instance)
                 /\ verdict.valid = legacy_verdict(Array(items), instance)
                 /\ verdict.valid =
                      is_valid(draft4_MultipleTypesValidator_compile(items, path).validator,
                               instance)

\* ["integer"] accepts 3.0 in the current compiler, as "integer" does.
C6_Witness ==
    /\ TypeCalled
    /\ keyword = "type"
    /\ schema = Array(<<String("integer")>>)
    /\ compiled.validator.tag = "IntegerType"
    /\ instance = Float(3 * One)
    /\ verdict.valid

WellFormedTypeSchema(sch) ==
    \/ IsTypeName(sch)
    \/ /\ sch.kind = "Array"
       /\ \A k \in 1..Len(sch.items) : IsTypeName(sch.items[k])

\* C7: compiling the type keyword, current or draft 4, yields SchemaError when
\* the value is an array with an entry that is not a string or not one of the
\* seven names, wherever the entry is, when it is neither a string nor an
\* array, and when it is an unknown name; otherwise it yields a validator.
C7_TypeSchemaError ==
    (keyword \in {"type", "type_draft_4"}) =>
        /\ compiled.ok <=> WellFormedTypeSchema(schema)
        /\ ~compiled.ok => compiled = SchemaError

\* ["string", 5]
C7_Witness ==
    /\ keyword \in {"type", "type_draft_4"}
    /\ schema = Array(<<String("string"), PosInt(5)>>)
    /\ compiled = SchemaError

\* C8: MaxProperties(limit) accepts every instance that is not an object, and
\* an object iff it has at most limit properties.
C8_MaxPropertiesLimit ==
    (keyword = "maxProperties" /\ compiled.ok /\ verdict.called) =>
        /\ compiled.validator.limit = schema.i
        /\ verdict.valid <=>
             (instance.kind # "Object" \/ Len(instance.entries) <= schema.i)

\* {"a":1,"b":2,"c":3} against the limit 2.
C8_Witness ==
    /\ keyword = "maxProperties"
    /\ compiled.ok
    /\ schema = PosInt(2)
    /\ instance = ThreeProperties
    /\ verdict.called
    /\ ~verdict.valid

\* The value of a number is an integer that is not negative.
IsNonNegativeInteger(sch) ==
    /\ sch.kind = "Number"
    /\ IF sch.n = "Float" THEN sch.f >= 0 /\ sch.f % Scale = 0 ELSE sch.i >= 0

IntegerValue(sch) == IF sch.n = "Float" THEN sch.f \div Scale ELSE sch.i

\* C9: compiling maxProperties fails with SchemaError exactly when the value
\* is not representable as a non-negative integer; every value that is
\* compiles to a validator whose limit is that value.
C9_MaxPropertiesCompile ==
    (keyword = "maxProperties") =>
        IF IsNonNegativeInteger(schema)
        THEN compiled.ok /\ compiled.validator.limit = IntegerValue(schema)
        ELSE compiled = SchemaError

FloatRemainder(divisor, inst) == FRem(FDiv(as_f64(inst), divisor), One)

\* C10: the float-divisor multipleOf validator accepts a number iff the
\* remainder (instance / divisor) mod 1 is less than EPSILON or greater than
\* 1 - EPSILON.
C10_MultipleOfFloatBothTails ==
    (/\ keyword = "multipleOf"
     /\ compiled.ok
     /\ compiled.validator.tag = "MultipleOfFloat"
     /\ verdict.called
     /\ instance.kind = "Number") =>
        (verdict.valid <=>
            LET remainder == FloatRemainder(compiled.validator.multiple_of, instance)
            IN  FLt(remainder, EPSILON) \/ FLt(FSub(One, EPSILON), remainder))

IntegerDivisorCalled ==
    /\ keyword = "multipleOf"
    /\ compiled.ok
    /\ compiled.validator.tag = "MultipleOfInteger"
    /\ verdict.called
    /\ instance.kind = "Number"

\* The instance is integral: its value is a whole number of units of 1.0.
IsIntegral(inst) == as_f64(inst) % Scale = 0

\* x mod d is exactly zero: x is a whole multiple of the (non-zero) divisor.
ModIsZero(x, d) == \E k \in (0 - Abs(x))..Abs(x) : k * d = x * Scale

\* C11: the integer-divisor multipleOf validator accepts an integral number
\* iff instance mod divisor is exactly zero, and gives a non-integral number
\* the verdict of the float variant's remainder test with the same divisor;
\* divisor 3 with instance 4.5 is invalid, divisor 1 with instance 4 is valid.
C11_MultipleOfIntegerDivisor ==
    IntegerDivisorCalled =>
        LET d == compiled.validator.multiple_of
        IN  /\ (IsIntegral(instance) /\ d # 0) =>
                    (verdict.valid <=> ModIsZero(as_f64(instance) \div Scale, d))
            /\ ~IsIntegral(instance) =>
                    (verdict.valid <=>
                        MultipleOfFloatValidator_is_valid([multiple_of |-> d], instance))
            /\ (d = 3 * One /\ instance = Float(9 * Half)) => ~verdict.valid
            /\ (d = One /\ instance = PosInt(4)) => verdict.valid

C11_Witness ==
    /\ IntegerDivisorCalled
    /\ compiled.validator.multiple_of = 3 * One
    /\ instance \in {Float(9 * Half), NegInt(0 - 3), NegInt(0 - 4)}
    /\ verdict.valid <=> (instance = NegInt(0 - 3))

\* C12: compiling multipleOf fails with SchemaError exactly when the schema
\* value is not a JSON number; every number, zero and negative ones included,
\* compiles to the integer-divisor variant iff its fractional part is zero
\* and to the float-divisor variant otherwise, with the number as divisor.
C12_MultipleOfCompile ==
    (keyword = "multipleOf") =>
        /\ (compiled = SchemaError) <=> (schema.kind # "Number")
        /\ (schema.kind = "Number") =>
                /\ compiled.ok
                /\ compiled.validator.multiple_of = as_f64(schema)
                /\ compiled.validator.path = context.curr_path
                /\ compiled.validator.tag =
                        IF IsIntegral(schema) THEN "MultipleOfInteger"
                        ELSE "MultipleOfFloat"

C12_Witness ==
    /\ keyword = "multipleOf"
    /\ schema \in {PosInt(0), NegInt(0 - 2), Float(0 - Half)}
    /\ compiled.ok

\* The validator an isolated compile of the same keyword gives.
CompiledFrom(kw, sch, ctx) ==
    CASE kw = "const"         -> const_compile(sch, ctx)
      [] kw = "type"          -> type_compile(sch, ctx)
      [] kw = "type_draft_4"  -> draft4_type_compile(sch, ctx)
      [] kw = "maxProperties" -> max_properties_compile(sch, ctx)
      [] kw = "multipleOf"    -> multiple_of_compile(sch, ctx)
      [] OTHER                -> NotCompiled

\* Every call that has returned, in whatever interleaving with the calls of
\* the other threads, returned what an isolated call on the freshly compiled
\* validator returns for its instance.
ReturnsAsIsolated ==
    \A t \in Threads :
        (calls[t].pc = "returned") =>
            calls[t].result =
                CallResult(CompiledFrom(keyword, schema, context).validator,
                           calls[t].method, calls[t].inst)

\* C13: no sequence or interleaving of is_valid, validate and to_string calls
\* changes the compiled validator (its path and its constraint value), and
\* every call made concurrently with others returns what an isolated call
\* returns: the result depends only on the compiled state and the instance.
C13_ImmutableUnderConcurrentCalls ==
    /\ [](compiled.ok => compiled = CompiledFrom(keyword, schema, context))
    /\ []ReturnsAsIsolated
    /\ [][(compiled.ok /\ keyword' = keyword) => compiled' = compiled]_vars

\* Two threads are in the same validator on the same instance: one has had
\* its instance rejected by validate, the other is still inside is_valid.
C13_Witness ==
    /\ compiled.ok
    /\ calls["t1"].pc = "returned"
    /\ calls["t1"].method = "validate"
    /\ Len(calls["t1"].result) = 1
    /\ calls["t2"].pc = "running"
    /\ calls["t2"].method = "is_valid"
    /\ calls["t2"].inst = calls["t1"].inst

\* The instance -x of a numeric instance x.
Negated(inst) == IF inst.n = "Float" THEN Float(0 - inst.f) ELSE IntLit(0 - inst.i)

\* The quotient x / d (d > 0) is farther than EPSILON from every integer.
FartherThanEpsilonFromEveryInteger(x, d) ==
    \A k \in (0 - (Abs(x) \div d + 1))..(Abs(x) \div d + 1) :
        Abs(x - k * d) * Scale > EPSILON * d

\* C14: for a positive divisor, multipleOf rejects every number, negative
\* ones included, whose quotient by the divisor is farther than EPSILON from
\* every integer, accepts every instance that is not a number, and gives x
\* and -x the same verdict.
C14_MultipleOfRejectsNonMultiples ==
    (/\ keyword = "multipleOf"
     /\ compiled.ok
     /\ compiled.validator.multiple_of > 0
     /\ verdict.called) =>
        LET d == compiled.validator.multiple_of
        IN  IF instance.kind = "Number"
            THEN /\ FartherThanEpsilonFromEveryInteger(as_f64(instance), d)
                        => ~verdict.valid
                 /\ verdict.valid = is_valid(compiled.validator, Negated(instance))
            ELSE verdict.valid

\* The variant of the error of a keyword compiled from sch.
ExpectedVariant(kw, sch) ==
    CASE kw = "const" ->
            (CASE sch.kind = "Array"  -> "ConstantArray"
               [] sch.kind = "Bool"   -> "ConstantBoolean"
               [] sch.kind = "Null"   -> "ConstantNull"
               [] sch.kind = "Number" -> "ConstantNumber"
               [] sch.kind = "Object" -> "ConstantObject"
               [] sch.kind = "String" -> "ConstantString")
      [] kw \in {"type", "type_draft_4"} ->
            IF IsTypeName(sch) \/ IsOneTypeName(sch) THEN "SingleTypeError"
            ELSE "MultipleTypeError"
      [] kw = "maxProperties" -> "MaxProperties"
      [] kw = "multipleOf"    -> "MultipleOf"

\* The constraint sch states: the literal, the type or the set of types, the
\* limit, the divisor.
ExpectedConstraint(kw, sch) ==
    CASE kw = "const" ->
            (CASE sch.kind = "Array"  -> sch.items
               [] sch.kind = "Bool"   -> sch.b
               [] sch.kind = "Null"   -> Null
               [] sch.kind = "Number" -> sch
               [] sch.kind = "Object" -> sch.entries
               [] sch.kind = "String" -> sch.s)
      [] kw \in {"type", "type_draft_4"} ->
            IF IsTypeName(sch) \/ IsOneTypeName(sch)
            THEN PrimitiveType_try_from(NameOf(sch)).t
            ELSE {PrimitiveType_try_from(name).t : name \in DeclaredTypes(sch)}
      [] kw = "maxProperties" -> sch.i
      [] kw = "multipleOf"    -> as_f64(sch)

Rejected == compiled.ok /\ errors.called /\ Len(errors.seq) > 0

\* C15: the one error of a rejection has the variant of the validator's
\* keyword and carries the path the compilation context held at compile time,
\* the rejected instance and the validator's constraint.
C15_ErrorPayload ==
    Rejected =>
        /\ Len(errors.seq) = 1
        /\ errors.seq[1].variant = ExpectedVariant(keyword, schema)
        /\ errors.seq[1].path = context.curr_path
        /\ errors.seq[1].instance = instance
        /\ errors.seq[1].expected = ExpectedConstraint(keyword, schema)

\* ["integer","null"] compiled at /properties/a rejects a string.
C15_Witness ==
    /\ Rejected
    /\ compiled.validator.tag = "MultipleTypes"
    /\ context.curr_path = <<"properties", "a">>
    /\ errors.seq[1].variant = "MultipleTypeError"
    /\ errors.seq[1].path = <<"properties", "a">>
    /\ errors.seq[1].expected = {"Integer", "Null"}
    /\ errors.seq[1].instance = String("a")

TypeCompiled(kw, sch) ==
    IF kw = "type" THEN type_compile(sch, context) ELSE draft4_type_compile(sch, context)

\* The well-formed declarations that name the same set of types as sch.
SameTypeSet(sch) ==
    {other \in TypeSchemas :
        WellFormedTypeSchema(other) /\ DeclaredTypes(other) = DeclaredTypes(sch)}

\* C16: in both compilers the empty array compiles, to a MultipleTypesValidator
\* with an empty bitmap that rejects every instance; and an array of two or
\* more valid names gives the verdict of every declaration of the same set of
\* names, whatever their order and their duplicates.
C16_EmptyArrayAndSetSemantics ==
    (keyword \in {"type", "type_draft_4"} /\ schema.kind = "Array") =>
        /\ (Len(schema.items) = 0) =>
                /\ compiled.ok
                /\ compiled.validator.tag =
                        IF keyword = "type" THEN "MultipleTypes"
                        ELSE "MultipleTypesDraft4"
                /\ compiled.validator.types = {}
                /\ verdict.called => ~verdict.valid
        /\ (Len(schema.items) >= 2 /\ WellFormedTypeSchema(schema) /\ verdict.called) =>
                \A other \in SameTypeSet(schema) :
                    verdict.valid = is_valid(TypeCompiled(keyword, other).validator, instance)

\* ["null","integer"] accepts 1.0 in the current compiler, as
\* ["integer","null"] does.
C16_Witness ==
    /\ keyword = "type"
    /\ schema = Array(<<String("null"), String("integer")>>)
    /\ Array(<<String("integer"), String("null")>>) \in SameTypeSet(schema)
    /\ verdict.called
    /\ instance = Float(One)
    /\ verdict.valid

\* The empty array, compiled by either compiler, has rejected an instance.
C16_EmptyArrayRejects ==
    /\ keyword \in {"type", "type_draft_4"}
    /\ schema = Array(<< >>)
    /\ compiled.ok
    /\ verdict.called
    /\ ~verdict.valid

=============================================================================
